---- MODULE Spec2Model ----
(***************************************************************************)
(* Session and credential manager of scripelle-backend: password reset     *)
(* token lifecycle (forgotPassword / resetPassword), JWT access/refresh    *)
(* tokens (login / refresh / logout / authenticateToken).                  *)
(* Registration and beta access (register / createAdmin / adminLogin /     *)
(* Google OAuth callback / approveUser / rejectUser).                      *)
(*                                                                         *)
(* Time is in milliseconds since the start of the behaviour.  JWT iat/exp  *)
(* are in whole seconds, as jsonwebtoken writes them.                      *)
(***************************************************************************)
EXTENDS Integers, Sequences, FiniteSets, TLC

\* ------------------------------------------------------------------ bounds
MaxForgots == 2    \* forgotPassword requests in one behaviour
MaxResets  == 2    \* resetPassword requests in one behaviour
MaxTicks == 2      \* clock advances in one behaviour
MaxOps   == 4      \* handler calls in one behaviour of the token flow

\* ------------------------------------------------------------------- units
MsPerSecond == 10 * 100
MsPerHour   == 60 * 60 * MsPerSecond

\* ------------------------------------------------------- program constants
ResetTokenHours    == 1        \* expiry.setHours(expiry.getHours() + 1)
MinPasswordLength  == 6        \* newPassword.length < 6
AccessTtlSeconds   == 900      \* JWT_EXPIRES_IN default '15m'
RefreshTtlSeconds  == 604800   \* JWT_REFRESH_EXPIRES_IN default '7d'

\* maxAge of the refreshToken cookie, ms: 7 * 24 * 60 * 60 * 1000
RefreshCookieMaxAge == 7 * 24 * 60 * 60 * MsPerSecond

DefaultJwtSecret        == "your-secret-key-change-in-production"
DefaultJwtRefreshSecret == "your-refresh-secret-key-change-in-production"

Null     == 0          \* null resetToken (issued tokens are 1, 2, ...)
NullDate == 0 - 1      \* null resetTokenExpiry (instants are >= 0)

VARIABLES
    env,        \* process.env read at module load: JWT secrets and lifetimes
    tz,         \* time zone of the server process (TZ)
    now,        \* wall clock, ms
    ticks,      \* number of clock advances so far
    users,      \* user store: id -> record, DOMAIN = the existing users
    forgots,    \* forgotPassword requests: handler position and locals
    resets,     \* resetPassword requests: handler position and locals
    nextToken,  \* crypto.randomBytes: next unused reset token value
    issued,     \* history: id -> sequence of reset tokens stored for the user
    consumed,   \* history: tokens a resetPassword succeeded with
    cleared,    \* history: tokens resetPassword cleared as expired
    okCount,    \* history: token -> number of resetPassword calls answered 200
    probe,      \* pure-function check: issuance instant, expiry, verdict
    cookie,     \* the browser's refreshToken cookie
    mintedAccess,   \* history: every token generateAccessToken returned
    mintedRefresh,  \* history: every token generateRefreshToken returned
    resp,       \* the last HTTP response of the token flow
    presented,  \* the token the last request of the token flow carried
    loggedOut,  \* history: a logout has been answered
    superseded, \* history: refresh tokens replaced by a rotation
    ops,        \* number of handler calls of the token flow so far
    betaAccessList, \* beta access list: the emails with a row, -> approved
    creds,      \* the email and password the last request carried
    regs,       \* register requests in flight: handler position and locals
    adds,       \* addBetaEmail requests in flight: handler position and locals
    documents,  \* documents table: id -> record
    chats,      \* generateText / chatWithDocument requests in flight
    docResp     \* the last response of a document endpoint

vars == << env, tz, now, ticks, users, forgots, resets, nextToken, issued, consumed,
           cleared, okCount, probe, cookie, mintedAccess, mintedRefresh, resp,
           presented, loggedOut, superseded, ops, betaAccessList, creds,
           regs, adds, documents, chats, docResp >>

resetVars == << users, forgots, resets, nextToken, issued, consumed, cleared, okCount >>
authVars  == << cookie, mintedAccess, mintedRefresh, resp, presented,
                loggedOut, superseded, ops, betaAccessList, creds >>
sideVars  == << regs, adds, documents, chats, docResp >>

\* ------------------------------------------------------------- time zones
\* Date.getHours/setHours work on local time.  A zone is UTC or has one
\* daylight-saving transition at instant Transition.
TimeZones  == {"UTC", "FallBack", "SpringForward"}
Transition == 2 * MsPerHour

OffsetBefore(z) == IF z = "FallBack" THEN MsPerHour ELSE 0
OffsetAfter(z)  == IF z = "SpringForward" THEN MsPerHour ELSE 0
Offset(z, t)    == IF t < Transition THEN OffsetBefore(z) ELSE OffsetAfter(z)

\* ECMA-262 LocalTime(t)
LocalTime(z, t) == t + Offset(z, t)

\* ECMA-262 UTC(t_local): a repeated or skipped local time is read with the
\* offset in force before the transition.
UTC(z, local) ==
    LET tb == local - OffsetBefore(z)
        ta == local - OffsetAfter(z)
    IN  IF Offset(z, tb) = OffsetBefore(z) THEN tb
        ELSE IF Offset(z, ta) = OffsetAfter(z) THEN ta
        ELSE tb

\* generateResetTokenExpiry(): new Date(); setHours(getHours() + 1)
generateResetTokenExpiry(z, t) ==
    UTC(z, LocalTime(z, t) + ResetTokenHours * MsPerHour)

\* isResetTokenValid without the strictness of '<'
isResetTokenValid_lax(expiry, t) ==
    IF expiry = NullDate THEN FALSE ELSE t <= expiry

\* isResetTokenValid(expiry): if (!expiry) return false; return new Date() < expiry
isResetTokenValid(expiry, t) ==
    IF expiry = NullDate THEN FALSE ELSE t < expiry

\* ------------------------------------------------------------------ clock
Advance(d) ==
    /\ ticks < MaxTicks
    /\ now' = now + d
    /\ ticks' = ticks + 1

\* =================================================== reset-token functions
\* The two functions alone: issue an expiry at some instant, let the clock
\* run, ask for the verdict.
NoProbe == [issuedAt |-> NullDate, expiry |-> NullDate,
            checkedAt |-> NullDate, valid |-> FALSE]

ExpirySteps == {1, MsPerHour - 1, MsPerHour}
StartTimes  == {0, 1, MsPerHour, MsPerHour + 1, 2 * MsPerHour - 1}

IdleRest ==
    /\ users = << >>
    /\ forgots = << >>
    /\ resets = << >>
    /\ nextToken = 1
    /\ issued = << >>
    /\ consumed = {}
    /\ cleared = {}
    /\ okCount = << >>

IdleSide ==
    /\ regs = << >>
    /\ adds = << >>
    /\ documents = << >>
    /\ chats = << >>
    /\ docResp = Null

IdleAuth ==
    /\ IdleSide
    /\ cookie = Null
    /\ mintedAccess = {}
    /\ mintedRefresh = {}
    /\ resp = Null
    /\ presented = Null
    /\ loggedOut = FALSE
    /\ superseded = {}
    /\ ops = 0
    /\ betaAccessList = << >>
    /\ creds = Null

InitExpiry ==
    /\ env = Null
    /\ tz \in TimeZones
    /\ now \in StartTimes
    /\ ticks = 0
    /\ probe = NoProbe
    /\ IdleRest
    /\ IdleAuth

ExpiryIssue ==
    /\ probe.issuedAt = NullDate
    /\ probe' = [probe EXCEPT !.issuedAt = now,
                              !.expiry = generateResetTokenExpiry(tz, now)]
    /\ UNCHANGED << env, tz, now, ticks, resetVars, authVars, sideVars >>

ExpiryCheck ==
    /\ probe.checkedAt # now
    /\ probe' = [probe EXCEPT !.checkedAt = now,
                              !.valid = isResetTokenValid(probe.expiry, now)]
    /\ UNCHANGED << env, tz, now, ticks, resetVars, authVars, sideVars >>

ExpiryTick ==
    /\ \E d \in ExpirySteps : Advance(d)
    /\ UNCHANGED << env, tz, probe, resetVars, authVars, sideVars >>

NextExpiry == ExpiryIssue \/ ExpiryCheck \/ ExpiryTick

SpecExpiry == InitExpiry /\ [][NextExpiry]_vars

\* C6: a token issued at T expires at exactly T + 1 hour; the verdict of
\* isResetTokenValid is true exactly when the expiry is not null and the
\* clock is strictly before it, so it is true before T + 1h and false from
\* T + 1h on, and false for a null expiry.
C6_ValidityWindow ==
    /\ probe.issuedAt # NullDate =>
           probe.expiry = probe.issuedAt + MsPerHour
    /\ probe.checkedAt # NullDate =>
           (probe.valid <=>
               (probe.issuedAt # NullDate /\
                probe.checkedAt < probe.issuedAt + MsPerHour))


\* ========================================================== the user store
Emails == {"a@x.com", "b@x.com"}

\* bcrypt.hash(password, 10): the digest of the plaintext under a fresh salt
hashPassword(password, salt) == [plain |-> password, salt |-> salt]

\* the password column of a user created without one (password: "")
NoHash == [plain |-> "", salt |-> 0]

\* bcrypt.compare(password, hashedPassword)
comparePassword(password, hashed) ==
    /\ hashed # NoHash
    /\ hashed.plain = password

\* a row of the users table
UserRow(id, email, hashed, isAdmin, betaMember, status) ==
    [id |-> id, email |-> email, password |-> hashed,
     resetToken |-> Null, resetTokenExpiry |-> NullDate,
     isAdmin |-> isAdmin, betaMember |-> betaMember, status |-> status]

\* prisma.user.findUnique({ where: { email } })
FindByEmail(store, email) == {i \in DOMAIN store : store[i].email = email}

\* prisma.user.findFirst({ where: { resetToken: token } })
FindByResetToken(store, token) ==
    {i \in DOMAIN store : store[i].resetToken = token}

\* forgotPassword's update that forgets to replace an outstanding token
StoreResetToken_keepOld(u, token, expiry) ==
    IF u.resetToken # Null THEN u
    ELSE [u EXCEPT !.resetToken = token, !.resetTokenExpiry = expiry]

\* forgotPassword: update({ data: { resetToken, resetTokenExpiry } })
StoreResetToken(u, token, expiry) ==
    [u EXCEPT !.resetToken = token, !.resetTokenExpiry = expiry]

\* update({ data: { resetToken: null, resetTokenExpiry: null } })
ClearResetFields(u) ==
    [u EXCEPT !.resetToken = Null, !.resetTokenExpiry = NullDate]

\* the consuming update writing the password only
ConsumeResetToken_passwordOnly(u, hashed) == [u EXCEPT !.password = hashed]

\* the consuming update clearing the expiry but not the token
ConsumeResetToken_keepToken(u, hashed) ==
    [u EXCEPT !.password = hashed, !.resetTokenExpiry = NullDate]

\* resetPassword: update({ data: { password, resetToken: null,
\*                                 resetTokenExpiry: null } })
ConsumeResetToken(u, hashed) ==
    [u EXCEPT !.password = hashed,
              !.resetToken = Null, !.resetTokenExpiry = NullDate]

\* ===================================================== the reset-token flow
\* forgotPassword and resetPassword are async handlers: each await is a point
\* where another request's step may run.  A slot of forgots or resets is one
\* request: its position in the handler and its locals.
Forgots == 1 .. MaxForgots
Resets  == 1 .. MaxResets

UnknownToken == 0 - 1            \* a token value that was never issued
NewPasswords == {"abcde", "secret9"}
ForgotEmails == {"a@x.com", "nobody@x.com"}
ResetSteps   == {MsPerHour}

IdleForgot == [pc |-> "idle", email |-> "", userId |-> 0,
               genToken |-> Null, genExpiry |-> NullDate, status |-> 0]

IdleReset == [pc |-> "idle", token |-> Null, newPassword |-> "",
              userId |-> 0, status |-> 0,
              late |-> FALSE, lateExpired |-> FALSE, stale |-> FALSE,
              expiredAtFind |-> FALSE, weak |-> FALSE]

Range(f) == {f[i] : i \in DOMAIN f}

Last(q) == q[Len(q)]

\* slots are taken in order
FreeSlot(slots, r) ==
    /\ slots[r].pc = "idle"
    /\ \A q \in DOMAIN slots : q < r => slots[q].pc # "idle"

SeedUsers ==
    (1 :> UserRow(1, "a@x.com", hashPassword("secret1", 0 - 1), FALSE, TRUE, "approved"))
    @@ (2 :> UserRow(2, "b@x.com", hashPassword("secret2", 0 - 2), FALSE, TRUE, "approved"))

InitReset ==
    /\ env = Null
    /\ tz = "UTC"
    /\ now = 0
    /\ ticks = 0
    /\ probe = NoProbe
    /\ users = SeedUsers
    /\ forgots = [r \in Forgots |-> IdleForgot]
    /\ resets = [r \in Resets |-> IdleReset]
    /\ nextToken = 1
    /\ issued = [i \in DOMAIN SeedUsers |-> << >>]
    /\ consumed = {}
    /\ cleared = {}
    /\ okCount = [t \in Forgots |-> 0]
    /\ IdleAuth

ResetFrame == UNCHANGED << env, tz, now, ticks, probe, authVars, sideVars >>

\* resetPassword up to the resolution of findFirst: the checks of the body,
\* the lookup by token, the validity check of the row read
ResetFind(r, token, newPassword) ==
    /\ FreeSlot(resets, r)
    /\ LET call  == [IdleReset EXCEPT
                       !.token = token,
                       !.weak = Len(newPassword) \in 1 .. (MinPasswordLength - 1)]
           found == FindByResetToken(users, token)
           flags == [call EXCEPT
                       !.late = token \in consumed,
                       !.lateExpired = token \in cleared,
                       !.stale = \E i \in DOMAIN issued :
                                    /\ token \in Range(issued[i])
                                    /\ token # Last(issued[i])]
       IN  IF token = Null \/ newPassword = ""
           THEN resets' = [resets EXCEPT ![r] =
                             [call EXCEPT !.pc = "done", !.status = 400]]
           ELSE IF Len(newPassword) < MinPasswordLength
           THEN resets' = [resets EXCEPT ![r] =
                             [call EXCEPT !.pc = "done", !.status = 400]]
           ELSE IF found = {}
           THEN resets' = [resets EXCEPT ![r] =
                             [flags EXCEPT !.pc = "done", !.status = 400]]
           ELSE \E i \in found :
                  resets' = [resets EXCEPT ![r] =
                     IF users[i].resetTokenExpiry = NullDate
                     THEN [flags EXCEPT !.pc = "done", !.status = 400]
                     ELSE [flags EXCEPT
                             !.userId = i,
                             !.newPassword = newPassword,
                             !.expiredAtFind = now >= users[i].resetTokenExpiry,
                             !.pc = IF isResetTokenValid(
                                         users[i].resetTokenExpiry, now)
                                    THEN "update" ELSE "clear"]]
    /\ UNCHANGED << users, forgots, nextToken, issued, consumed, cleared,
                    okCount >>
    /\ ResetFrame

\* resetPassword: the expired branch clears the fields and answers 400
ResetClear(r) ==
    /\ resets[r].pc = "clear"
    /\ users' = [users EXCEPT ![resets[r].userId] = ClearResetFields(@)]
    /\ cleared' = cleared \cup {resets[r].token}
    /\ resets' = [resets EXCEPT ![r].pc = "done", ![r].status = 400,
                                ![r].newPassword = ""]
    /\ UNCHANGED << forgots, nextToken, issued, consumed, okCount >>
    /\ ResetFrame

\* resetPassword: hashPassword, the consuming update, 200
ResetUpdate(r) ==
    /\ resets[r].pc = "update"
    /\ users' = [users EXCEPT ![resets[r].userId] =
                    ConsumeResetToken(@, hashPassword(resets[r].newPassword, r))]
    /\ consumed' = consumed \cup {resets[r].token}
    /\ okCount' = [okCount EXCEPT ![resets[r].token] = @ + 1]
    /\ resets' = [resets EXCEPT ![r].pc = "done", ![r].status = 200,
                                ![r].newPassword = ""]
    /\ UNCHANGED << forgots, nextToken, issued, cleared >>
    /\ ResetFrame

\* forgotPassword up to the resolution of findUnique: the check of the body,
\* the lookup by email, the generation of token and expiry
ForgotFind(r, email) ==
    /\ FreeSlot(forgots, r)
    /\ LET call  == [IdleForgot EXCEPT !.email = email]
           found == FindByEmail(users, email)
       IN  IF email = ""
           THEN /\ forgots' = [forgots EXCEPT ![r] =
                                 [call EXCEPT !.pc = "done", !.status = 400]]
                /\ UNCHANGED nextToken
           ELSE IF found = {}
           THEN /\ forgots' = [forgots EXCEPT ![r] =
                                 [call EXCEPT !.pc = "done", !.status = 200]]
                /\ UNCHANGED nextToken
           ELSE /\ \E i \in found :
                     forgots' = [forgots EXCEPT ![r] =
                        [call EXCEPT
                           !.userId = i,
                           !.genToken = nextToken,
                           !.genExpiry = generateResetTokenExpiry(tz, now),
                           !.pc = "store"]]
                /\ nextToken' = nextToken + 1
    /\ UNCHANGED << users, resets, issued, consumed, cleared, okCount >>
    /\ ResetFrame

\* forgotPassword: the update that stores token and expiry, then
\* sendPasswordResetEmail: resolved (200) or rejected (the catch block's
\* cleanup update is still to come)
ForgotStore(r, sent) ==
    /\ forgots[r].pc = "store"
    /\ users' = [users EXCEPT ![forgots[r].userId] =
                    StoreResetToken(@, forgots[r].genToken, forgots[r].genExpiry)]
    /\ issued' = [issued EXCEPT ![forgots[r].userId] =
                    Append(@, forgots[r].genToken)]
    /\ forgots' = [forgots EXCEPT ![r] =
                      IF sent
                      THEN [IdleForgot EXCEPT !.pc = "done", !.status = 200]
                      ELSE [forgots[r] EXCEPT !.pc = "cleanup"]]
    /\ UNCHANGED << resets, nextToken, consumed, cleared, okCount >>
    /\ ResetFrame

\* forgotPassword: the cleanup update of the catch block, 500
ForgotCleanup(r) ==
    /\ forgots[r].pc = "cleanup"
    /\ users' = [users EXCEPT ![forgots[r].userId] = ClearResetFields(@)]
    /\ forgots' = [forgots EXCEPT ![r] =
                      [IdleForgot EXCEPT !.pc = "done", !.status = 500]]
    /\ UNCHANGED << resets, nextToken, issued, consumed, cleared, okCount >>
    /\ ResetFrame

\* the server process dies: every handler suspended at an await is lost
Crash ==
    /\ \/ \E r \in Forgots : forgots[r].pc \notin {"idle", "done", "crashed"}
       \/ \E r \in Resets : resets[r].pc \notin {"idle", "done", "crashed"}
    /\ forgots' = [r \in Forgots |->
                     IF forgots[r].pc \in {"idle", "done"} THEN forgots[r]
                     ELSE [forgots[r] EXCEPT !.pc = "crashed"]]
    /\ resets' = [r \in Resets |->
                     IF resets[r].pc \in {"idle", "done"} THEN resets[r]
                     ELSE [resets[r] EXCEPT !.pc = "crashed"]]
    /\ UNCHANGED << users, nextToken, issued, consumed, cleared, okCount >>
    /\ ResetFrame

ResetTick ==
    /\ \E d \in ResetSteps : Advance(d)
    /\ UNCHANGED << env, tz, probe, resetVars, authVars, sideVars >>

\* the tokens a client can present: those issued so far, or a made-up one
KnownTokens == {UnknownToken} \cup (1 .. (nextToken - 1))

NextReset ==
    \/ \E r \in Resets, t \in KnownTokens, p \in NewPasswords : ResetFind(r, t, p)
    \/ \E r \in Resets : ResetClear(r)
    \/ \E r \in Resets : ResetUpdate(r)
    \/ \E r \in Forgots, e \in ForgotEmails : ForgotFind(r, e)
    \/ \E r \in Forgots, sent \in BOOLEAN : ForgotStore(r, sent)
    \/ \E r \in Forgots : ForgotCleanup(r)
    \/ Crash
    \/ ResetTick

SpecReset == InitReset /\ [][NextReset]_vars

\* C1: two resetPassword requests presenting the same reset token never both
\* succeed: no token is answered 200 more than once.
C1_AtMostOneSuccess == \A t \in DOMAIN okCount : okCount[t] <= 1


\* C2: a reset token is single-use.  The consuming update leaves the user's
\* resetToken and resetTokenExpiry null, and a resetPassword that looks the
\* token up after a success with it is answered 400 and changes no password.
C2_SingleUse ==
    [][\A r \in Resets :
         /\ (resets[r].pc = "update" /\ resets'[r].status = 200) =>
               /\ users'[resets[r].userId].resetToken = Null
               /\ users'[resets[r].userId].resetTokenExpiry = NullDate
         /\ (resets[r].pc = "idle" /\ resets'[r].late) =>
               /\ resets'[r].pc = "done"
               /\ resets'[r].status = 400
               /\ \A u \in DOMAIN users : users'[u].password = users[u].password
      ]_vars

C2_Witness ==
    \E r \in Resets : resets[r].late /\ resets[r].status = 400

\* C3: no state, a crash between two steps included, has a user's password
\* replaced by a resetPassword request's hash while the token that request
\* presented is still stored and unexpired.
C3_AtomicConsume ==
    \A r \in Resets : \A u \in DOMAIN users :
        users[u].password.salt = r =>
            ~ (/\ users[u].resetToken = resets[r].token
               /\ isResetTokenValid(users[u].resetTokenExpiry, now))

C3_Witness ==
    /\ \E r \in Resets : \E u \in DOMAIN users : users[u].password.salt = r
    /\ \E q \in Resets : resets[q].pc = "crashed"

\* C4: a resetPassword that finds its token's stored expiry passed goes to
\* the clearing branch: it answers 400, changes no password, nulls that
\* user's resetToken and resetTokenExpiry, and a later resetPassword with the
\* same token is answered 400 as unknown.
C4_ExpiredCleared ==
    [][\A r \in Resets :
         /\ (resets[r].pc = "idle" /\ resets'[r].expiredAtFind) =>
               resets'[r].pc = "clear"
         /\ (resets[r].pc = "clear" /\ resets'[r].pc = "done") =>
               /\ resets'[r].status = 400
               /\ users'[resets[r].userId].resetToken = Null
               /\ users'[resets[r].userId].resetTokenExpiry = NullDate
               /\ \A u \in DOMAIN users : users'[u].password = users[u].password
         /\ (resets[r].pc = "idle" /\ resets'[r].lateExpired) =>
               /\ resets'[r].pc = "done"
               /\ resets'[r].status = 400
               /\ users' = users
      ]_vars

C4_Witness ==
    /\ \E r \in Resets : resets[r].expiredAtFind /\ resets[r].status = 400
    /\ \E q \in Resets : resets[q].lateExpired /\ resets[q].status = 400

\* C5: a user holds at most one live reset token, the one stored last: the
\* stored token is null or the latest issued for that user, and a
\* resetPassword presenting an earlier token of a user is answered 400.
C5_OnlyLatestToken ==
    /\ \A u \in DOMAIN users :
          \/ users[u].resetToken = Null
          \/ /\ issued[u] # << >>
             /\ users[u].resetToken = Last(issued[u])
    /\ \A r \in Resets :
          resets[r].stale =>
             /\ resets[r].pc = "done"
             /\ resets[r].status = 400
             /\ resets[r].userId = 0

C5_Witness ==
    /\ \E r \in Resets : resets[r].stale /\ resets[r].status = 400
    /\ \E q \in Resets : \E u \in DOMAIN users :
          /\ resets[q].status = 200
          /\ Len(issued[u]) >= 2
          /\ resets[q].token = Last(issued[u])

\* C28: the cleanup of a forgotPassword request whose email failed clears
\* only the token that request stored: when the user's row holds a token
\* another forgotPassword request stored since, the cleanup leaves the row
\* as it is.
C28_CleanupOwnTokenOnly ==
    [][\A r \in Forgots :
          (forgots[r].pc = "cleanup" /\ forgots'[r].pc = "done") =>
              (users[forgots[r].userId].resetToken # forgots[r].genToken =>
                   users'[forgots[r].userId] = users[forgots[r].userId])
      ]_vars


\* ============================================================ JWT tokens
\* A signed token is its payload, the claims jsonwebtoken adds (iat, exp,
\* in seconds) and the key of its HMAC signature.
NoToken == [key |-> "", userId |-> 0, email |-> "", iat |-> 0, exp |-> 0]

\* the environments the process may start in: no JWT variable set (the
\* defaults of the source), both secrets set to one value, or both
\* lifetimes and ADMIN_SECRET_KEY set (JWT_EXPIRES_IN=-1s,
\* JWT_REFRESH_EXPIRES_IN=1d); lifetimes are in seconds, "" is an unset
\* variable
Envs ==
    { [JWT_SECRET |-> DefaultJwtSecret,
       JWT_REFRESH_SECRET |-> DefaultJwtRefreshSecret,
       JWT_EXPIRES_IN |-> AccessTtlSeconds,
       JWT_REFRESH_EXPIRES_IN |-> RefreshTtlSeconds,
       ADMIN_SECRET_KEY |-> ""],
      [JWT_SECRET |-> "shared-secret",
       JWT_REFRESH_SECRET |-> "shared-secret",
       JWT_EXPIRES_IN |-> AccessTtlSeconds,
       JWT_REFRESH_EXPIRES_IN |-> RefreshTtlSeconds,
       ADMIN_SECRET_KEY |-> ""],
      [JWT_SECRET |-> "access-secret",
       JWT_REFRESH_SECRET |-> "refresh-secret",
       JWT_EXPIRES_IN |-> 0 - 1,
       JWT_REFRESH_EXPIRES_IN |-> 24 * 60 * 60,
       ADMIN_SECRET_KEY |-> "admin-key"] }

\* jwt.sign(payload, secret, { expiresIn }) at instant t
jwtSign(userId, email, secret, ttl, t) ==
    [key |-> secret, userId |-> userId, email |-> email,
     iat |-> t \div MsPerSecond, exp |-> (t \div MsPerSecond) + ttl]

\* jwt.verify with { ignoreExpiration: true }
jwtVerify_ignoreExpiration(token, secret, t) ==
    IF token.key # secret THEN "invalid" ELSE "ok"

\* jwt.verify(token, secret) at instant t: the signature first, then exp
jwtVerify(token, secret, t) ==
    IF token.key # secret THEN "invalid"
    ELSE IF (t \div MsPerSecond) >= token.exp THEN "expired"
    ELSE "ok"

\* generateAccessToken({ userId, email })
generateAccessToken(userId, email, t) ==
    jwtSign(userId, email, env.JWT_SECRET, env.JWT_EXPIRES_IN, t)

\* generateRefreshToken({ userId, email })
generateRefreshToken(userId, email, t) ==
    jwtSign(userId, email, env.JWT_REFRESH_SECRET, env.JWT_REFRESH_EXPIRES_IN, t)

\* verifyAccessToken(token): TRUE when it returns, FALSE when it throws
verifyAccessToken(token, t) == jwtVerify(token, env.JWT_SECRET, t) = "ok"

\* the message of the Error verifyAccessToken throws ("" when it returns):
\* its catch block replaces whatever jwt.verify threw
verifyAccessTokenError(token, t) ==
    IF jwtVerify(token, env.JWT_SECRET, t) = "ok" THEN ""
    ELSE "Invalid or expired access token"

\* the message of the Error verifyRefreshToken throws ("" when it returns)
verifyRefreshTokenError(token, t) ==
    IF jwtVerify(token, env.JWT_REFRESH_SECRET, t) = "ok" THEN ""
    ELSE "Invalid or expired refresh token"

\* verifyRefreshToken checking against the access secret
verifyRefreshToken_accessSecret(token, t) ==
    jwtVerify(token, env.JWT_SECRET, t) = "ok"

\* verifyRefreshToken that also consults a record of logouts and rotations
verifyRefreshToken_revoking(token, t) ==
    /\ jwtVerify(token, env.JWT_REFRESH_SECRET, t) = "ok"
    /\ ~ loggedOut
    /\ token \notin superseded

\* verifyRefreshToken(token): TRUE when it returns, FALSE when it throws
verifyRefreshToken(token, t) ==
    jwtVerify(token, env.JWT_REFRESH_SECRET, t) = "ok"

\* generateTokens(userId, email)
generateTokens(userId, email, t) ==
    [accessToken |-> generateAccessToken(userId, email, t),
     refreshToken |-> generateRefreshToken(userId, email, t)]

\* ===================================================== the token endpoints
\* the options of a cookie that is not set
NoCookieOptions == [httpOnly |-> FALSE, sameSite |-> "", maxAge |-> 0]

\* the options every handler passes to res.cookie('refreshToken', ...)
RefreshCookieOptions ==
    [httpOnly |-> TRUE, sameSite |-> "strict", maxAge |-> RefreshCookieMaxAge]

\* An HTTP response: status, the error and the accessToken of the JSON body,
\* the token in the query string of a redirect, what it does to the
\* refreshToken cookie, and for the middleware whether next() ran and the
\* req.user it set.  param is the :userId of an admin route and data the
\* emails of the rows an admin route reads out.  replay is history: the
\* token a refresh carried had already been replaced by a rotation.
Reply(op, status) ==
    [op |-> op, status |-> status, error |-> "", waitingList |-> FALSE,
     accessToken |-> NoToken, urlToken |-> NoToken,
     cookieOp |-> "none", cookieToken |-> NoToken,
     cookieOptions |-> NoCookieOptions,
     next |-> FALSE, reqUser |-> NoToken, replay |-> FALSE,
     param |-> 0, data |-> {}]

\* res.status(status).json({ error })
ReplyError(op, status, error) == [Reply(op, status) EXCEPT !.error = error]

\* res.cookie('refreshToken', refreshToken, ...)
SetRefreshCookie(r, refreshToken) ==
    [r EXCEPT !.cookieOp = "set",
              !.cookieToken = refreshToken,
              !.cookieOptions = RefreshCookieOptions]

\* handlers that also put the refresh token into the JSON body
ReplyTokens_refreshInBody(op, status, tokens) ==
    [SetRefreshCookie(Reply(op, status), tokens.refreshToken)
        EXCEPT !.accessToken = tokens.refreshToken]

\* res.cookie('refreshToken', ...) followed by res.status(..).json({ accessToken })
ReplyTokens(op, status, tokens) ==
    [SetRefreshCookie(Reply(op, status), tokens.refreshToken)
        EXCEPT !.accessToken = tokens.accessToken]

\* login without the comparison of the password
LoginResponse_noPasswordCheck(email, password, t) ==
    LET found == FindByEmail(users, email)
    IN  IF email = "" \/ password = ""
        THEN ReplyError("login", 400, "Email and password are required")
        ELSE IF found = {} THEN ReplyError("login", 401, "Invalid credentials")
        ELSE LET user == users[CHOOSE i \in found : TRUE]
             IN  IF user.status = "pending" /\ ~ user.betaMember
                 THEN [ReplyError("login", 403, "Your account is pending approval.")
                          EXCEPT !.waitingList = TRUE]
                 ELSE IF user.status = "rejected"
                 THEN ReplyError("login", 403,
                                 "Your beta access request has been rejected.")
                 ELSE ReplyTokens("login", 200,
                                  generateTokens(user.id, user.email, t))

\* login without the checks of user.status
LoginResponse_noStatusCheck(email, password, t) ==
    LET found == FindByEmail(users, email)
    IN  IF email = "" \/ password = ""
        THEN ReplyError("login", 400, "Email and password are required")
        ELSE IF found = {} THEN ReplyError("login", 401, "Invalid credentials")
        ELSE LET user == users[CHOOSE i \in found : TRUE]
             IN  IF ~ comparePassword(password, user.password)
                 THEN ReplyError("login", 401, "Invalid credentials")
                 ELSE ReplyTokens("login", 200,
                                  generateTokens(user.id, user.email, t))

\* login(req, res)
LoginResponse(email, password, t) ==
    LET found == FindByEmail(users, email)
    IN  IF email = "" \/ password = ""
        THEN ReplyError("login", 400, "Email and password are required")
        ELSE IF found = {} THEN ReplyError("login", 401, "Invalid credentials")
        ELSE LET user == users[CHOOSE i \in found : TRUE]
             IN  IF ~ comparePassword(password, user.password)
                 THEN ReplyError("login", 401, "Invalid credentials")
                 ELSE IF user.status = "pending" /\ ~ user.betaMember
                 THEN [ReplyError("login", 403, "Your account is pending approval.")
                          EXCEPT !.waitingList = TRUE]
                 ELSE IF user.status = "rejected"
                 THEN ReplyError("login", 403,
                                 "Your beta access request has been rejected.")
                 ELSE ReplyTokens("login", 200,
                                  generateTokens(user.id, user.email, t))

\* refreshToken that mints and sets the cookie before it looks the user up
RefreshResponse_cookieFirst(c, t) ==
    IF c = NoToken THEN Reply("refresh", 401)
    ELSE IF ~ verifyRefreshToken(c, t) THEN Reply("refresh", 403)
    ELSE IF c.userId \notin DOMAIN users
    THEN SetRefreshCookie(Reply("refresh", 401),
                          generateRefreshToken(c.userId, c.email, t))
    ELSE ReplyTokens("refresh", 200,
                     generateTokens(users[c.userId].id, users[c.userId].email, t))

\* refreshToken(req, res): c is req.cookies.refreshToken
RefreshResponse(c, t) ==
    IF c = NoToken THEN ReplyError("refresh", 401, "Refresh token required")
    ELSE IF ~ verifyRefreshToken(c, t)
    THEN ReplyError("refresh", 403, "Invalid or expired refresh token")
    ELSE IF c.userId \notin DOMAIN users
    THEN ReplyError("refresh", 401, "User not found")
    ELSE ReplyTokens("refresh", 200,
                     generateTokens(users[c.userId].id, users[c.userId].email, t))

\* logout(req, res): res.clearCookie, 200
LogoutResponse == [Reply("logout", 200) EXCEPT !.cookieOp = "clear"]

\* what jwt.verify returns for a token it accepts: the decoded payload
Payload(token) == [token EXCEPT !.key = ""]

\* authenticateToken that goes on without a user when the token is refused,
\* as optionalAuthentication does
AuthenticateResponse_optional(h, t) ==
    IF h # NoToken /\ verifyAccessToken(h, t)
    THEN [Reply("authenticate", 200) EXCEPT !.next = TRUE,
                                            !.reqUser = Payload(h)]
    ELSE [Reply("authenticate", 200) EXCEPT !.next = TRUE]

\* authenticateToken(req, res, next): h is the token of the Authorization header
AuthenticateResponse(h, t) ==
    IF h = NoToken THEN ReplyError("authenticate", 401, "Access token required")
    ELSE IF ~ verifyAccessToken(h, t)
    THEN ReplyError("authenticate", 403, "Invalid or expired token")
    ELSE [Reply("authenticate", 200) EXCEPT !.next = TRUE,
                                            !.reqUser = Payload(h)]

\* the client's cookie jar after a response
CookieAfter(jar, r) ==
    IF r.cookieOp = "set" THEN r.cookieToken
    ELSE IF r.cookieOp = "clear" THEN NoToken
    ELSE jar

\* the request carried neither an email nor a password
NoCreds == [email |-> "", password |-> ""]

LoginEmails    == {"a@x.com", "b@x.com", "nobody@x.com"}
LoginPasswords == {"secret1", "secret2"}
AuthSteps      == {MsPerSecond, AccessTtlSeconds * MsPerSecond,
                   RefreshTtlSeconds * MsPerSecond}

\* a token signed with a key the server does not use
ForgedTokens == {jwtSign(1, "a@x.com", "attacker-key", RefreshTtlSeconds, 0)}

\* the tokens a client can send: none, one the server issued, a forged one
SendableTokens == {NoToken} \cup mintedAccess \cup mintedRefresh \cup ForgedTokens

AuthSeedUsers ==
    (1 :> UserRow(1, "a@x.com", hashPassword("secret1", 0 - 1), FALSE, TRUE, "approved"))
    @@ (2 :> UserRow(2, "b@x.com", hashPassword("secret2", 0 - 2), FALSE, FALSE, "pending"))

InitAuth ==
    /\ env \in Envs
    /\ tz = "UTC"
    /\ now = 0
    /\ ticks = 0
    /\ probe = NoProbe
    /\ users = AuthSeedUsers
    /\ forgots = << >>
    /\ resets = << >>
    /\ nextToken = 1
    /\ issued = << >>
    /\ consumed = {}
    /\ cleared = {}
    /\ okCount = << >>
    /\ cookie = NoToken
    /\ mintedAccess = {}
    /\ mintedRefresh = {}
    /\ resp = Reply("none", 0)
    /\ presented = NoToken
    /\ loggedOut = FALSE
    /\ superseded = {}
    /\ ops = 0
    /\ betaAccessList = ("a@x.com" :> TRUE)
    /\ creds = NoCreds
    /\ IdleSide

AuthFrame ==
    UNCHANGED << env, tz, now, ticks, probe, forgots, resets, nextToken,
                 issued, consumed, cleared, okCount, sideVars >>

\* what every handler call does to the histories
Answer(r, sent, c) ==
    /\ ops < MaxOps
    /\ ops' = ops + 1
    /\ resp' = r
    /\ presented' = sent
    /\ creds' = c
    /\ cookie' = CookieAfter(cookie, r)
    /\ mintedAccess' = mintedAccess \cup ({r.accessToken, r.urlToken} \ {NoToken})
    /\ mintedRefresh' = mintedRefresh \cup ({r.cookieToken} \ {NoToken})

Login(email, password) ==
    /\ Answer(LoginResponse(email, password, now), NoToken,
              [email |-> email, password |-> password])
    /\ UNCHANGED << users, betaAccessList, loggedOut, superseded >>
    /\ AuthFrame

Refresh(c) ==
    /\ Answer([RefreshResponse(c, now) EXCEPT !.replay = c \in superseded], c,
              NoCreds)
    /\ superseded' = IF RefreshResponse(c, now).cookieOp = "set"
                     THEN superseded \cup ({c} \ {RefreshResponse(c, now).cookieToken})
                     ELSE superseded
    /\ UNCHANGED << users, betaAccessList, loggedOut >>
    /\ AuthFrame

Logout ==
    /\ Answer(LogoutResponse, cookie, NoCreds)
    /\ loggedOut' = TRUE
    /\ UNCHANGED << users, betaAccessList, superseded >>
    /\ AuthFrame

Authenticate(h) ==
    /\ Answer(AuthenticateResponse(h, now), h, NoCreds)
    /\ UNCHANGED << users, betaAccessList, loggedOut, superseded >>
    /\ AuthFrame

\* the user row is removed from the store (refreshToken: "Verify user still
\* exists")
RemoveUser(u) ==
    /\ u \in DOMAIN users
    /\ users' = [i \in DOMAIN users \ {u} |-> users[i]]
    /\ UNCHANGED authVars
    /\ AuthFrame

AuthTick ==
    /\ \E d \in AuthSteps : Advance(d)
    /\ UNCHANGED << env, tz, probe, resetVars, authVars, sideVars >>

NextAuth ==
    \/ \E e \in LoginEmails, p \in LoginPasswords : Login(e, p)
    \/ \E c \in SendableTokens : Refresh(c)
    \/ Logout
    \/ \E h \in SendableTokens : Authenticate(h)
    \/ \E u \in DOMAIN users : RemoveUser(u)
    \/ AuthTick

SpecAuth == InitAuth /\ [][NextAuth]_vars

\* C7: a rejected refresh is answered 401 or 403 with no access token, and
\* the refreshToken cookie is neither set nor replaced.
C7_NoPartialRefresh ==
    [][(ops' # ops /\ resp'.op = "refresh" /\ resp'.status # 200) =>
          /\ resp'.status \in {401, 403}
          /\ resp'.accessToken = NoToken
          /\ resp'.cookieOp = "none"
          /\ cookie' = cookie
          /\ mintedAccess' = mintedAccess
          /\ mintedRefresh' = mintedRefresh
      ]_vars

C7_Witness ==
    /\ resp.op = "refresh"
    /\ resp.status = 401
    /\ presented \in mintedRefresh
    /\ presented.userId \notin DOMAIN users

\* C8: a successful refresh sets a refresh token cookie for the identity of
\* the presented token, and the new refresh token differs from the one
\* presented.
C8_RotationYieldsNewToken ==
    (resp.op = "refresh" /\ resp.status = 200) =>
        /\ resp.cookieOp = "set"
        /\ resp.cookieToken.userId = presented.userId
        /\ resp.cookieToken.email = presented.email
        /\ resp.accessToken.userId = presented.userId
        /\ resp.cookieToken # presented

\* C9: logout changes no user-store state and only clears the cookie, and a
\* refresh token the server issued that has not reached its expiry is
\* accepted by refresh while its user exists, also after a logout and after
\* a rotation replaced it.
C9_StatelessLogoutAndRotation ==
    [][/\ (ops' # ops /\ resp'.op = "logout") =>
             /\ users' = users
             /\ resp'.cookieOp = "clear"
             /\ cookie' = NoToken
       /\ (/\ ops' # ops
           /\ resp'.op = "refresh"
           /\ presented' \in mintedRefresh
           /\ (now \div MsPerSecond) < presented'.exp
           /\ presented'.userId \in DOMAIN users) =>
             resp'.status = 200
      ]_vars

C9_Witness ==
    /\ loggedOut
    /\ resp.op = "refresh"
    /\ resp.status = 200
    /\ resp.replay

\* C10: with distinct access and refresh secrets, refresh never accepts a
\* token generateAccessToken minted and authenticateToken never accepts a
\* token generateRefreshToken minted.
C10_TokenKindsSeparate ==
    env.JWT_SECRET # env.JWT_REFRESH_SECRET =>
        /\ (resp.op = "refresh" /\ presented \in mintedAccess) =>
              (resp.status = 403 /\ resp.cookieOp = "none")
        /\ (resp.op = "authenticate" /\ presented \in mintedRefresh) =>
              (resp.status = 403 /\ ~ resp.next)

C10_Witness ==
    /\ env.JWT_SECRET # env.JWT_REFRESH_SECRET
    /\ resp.op = "refresh"
    /\ presented \in mintedAccess
    /\ resp.status = 403

\* the instant, in whole seconds, is at or past the end of the lifetime ttl
\* of a token signed at iat
Elapsed(token, ttl) == (now \div MsPerSecond) >= token.iat + ttl

\* C11 (as the source has it): a correctly signed access or refresh token
\* whose lifetime has elapsed is refused, also when the lifetime is -1
\* second; jwt.verify refuses it for its expiry and not for its signature,
\* and verifyAccessToken / verifyRefreshToken throw their one generic
\* "Invalid or expired ... token" error.
C11_ExpiredTokenRefused ==
    /\ \A tok \in mintedAccess :
          Elapsed(tok, env.JWT_EXPIRES_IN) =>
              /\ jwtVerify(tok, env.JWT_SECRET, now) = "expired"
              /\ ~ verifyAccessToken(tok, now)
              /\ verifyAccessTokenError(tok, now) = "Invalid or expired access token"
    /\ \A tok \in mintedRefresh :
          Elapsed(tok, env.JWT_REFRESH_EXPIRES_IN) =>
              /\ jwtVerify(tok, env.JWT_REFRESH_SECRET, now) = "expired"
              /\ ~ verifyRefreshToken(tok, now)
              /\ verifyRefreshTokenError(tok, now) = "Invalid or expired refresh token"

C11_Witness ==
    /\ env.JWT_EXPIRES_IN > 0
    /\ resp.op = "authenticate"
    /\ presented \in mintedAccess
    /\ Elapsed(presented, env.JWT_EXPIRES_IN)
    /\ resp.status = 403

\* C11 (as stated): the error verifyAccessToken / verifyRefreshToken raise for
\* a correctly signed token past its lifetime is of the expiry class, not the
\* error they raise for a token with a wrong signature.
C11_ExpiryClassReported ==
    \A f \in ForgedTokens :
        /\ \A tok \in mintedAccess :
              Elapsed(tok, env.JWT_EXPIRES_IN) =>
                  verifyAccessTokenError(tok, now) # verifyAccessTokenError(f, now)
        /\ \A tok \in mintedRefresh :
              Elapsed(tok, env.JWT_REFRESH_EXPIRES_IN) =>
                  verifyRefreshTokenError(tok, now) # verifyRefreshTokenError(f, now)

\* C12: authenticateToken calls next only for a request whose Authorization
\* header carries a token signed with the access secret and not expired, and
\* then req.user is the verified payload; without a token it answers 401,
\* with a mis-signed or expired token 403, and in both cases next is not
\* called and req.user is not set.
C12_StrictGate ==
    [][(ops' # ops /\ resp'.op = "authenticate") =>
          /\ presented' = NoToken =>
                /\ resp'.status = 401
                /\ ~ resp'.next
                /\ resp'.reqUser = NoToken
          /\ (/\ presented' # NoToken
              /\ \/ presented'.key # env.JWT_SECRET
                 \/ (now \div MsPerSecond) >= presented'.exp) =>
                /\ resp'.status = 403
                /\ ~ resp'.next
                /\ resp'.reqUser = NoToken
          /\ resp'.next =>
                /\ presented' # NoToken
                /\ presented'.key = env.JWT_SECRET
                /\ (now \div MsPerSecond) < presented'.exp
                /\ resp'.reqUser.userId = presented'.userId
                /\ resp'.reqUser.email = presented'.email
                /\ resp'.reqUser.iat = presented'.iat
                /\ resp'.reqUser.exp = presented'.exp
      ]_vars

C12_Witness ==
    /\ resp.op = "authenticate"
    /\ resp.next
    /\ presented \in mintedAccess
    /\ resp.reqUser.userId = presented.userId

\* C14: whenever a response sets the refreshToken cookie, the maxAge of the
\* cookie is the lifetime the refresh token was signed with.
C14_CookieMaxAgeIsTtl ==
    resp.cookieOp = "set" =>
        /\ resp.cookieOptions.maxAge = env.JWT_REFRESH_EXPIRES_IN * MsPerSecond
        /\ resp.cookieOptions.maxAge =
              (resp.cookieToken.exp - resp.cookieToken.iat) * MsPerSecond


\* ================================================ registration and access
\* register, createAdmin, adminLogin, the Google OAuth callback and the
\* admin's approveUser / rejectUser, next to login and refreshToken.  Each
\* handler call is one step.

\* the id the users table gives to the next row (autoincrement)
NextId(store) == Cardinality(DOMAIN store) + 1

\* the salt bcrypt draws in this handler call
CallSalt == MaxResets + ops + 1

\* prisma.user.create(...)
CreateUser(store, email, hashed, isAdmin, betaMember, status) ==
    store @@ (NextId(store) :>
                UserRow(NextId(store), email, hashed, isAdmin, betaMember, status))

\* betaAccess?.approved || false
isBetaApproved(list, email) == email \in DOMAIN list /\ list[email]

\* register without the check of the length of the password
RegisterAccepts_noMinLength(email, password) ==
    /\ email # "" /\ password # ""
    /\ FindByEmail(users, email) = {}

\* register: the checks of the body and the lookup by email pass
RegisterAccepts(email, password) ==
    /\ email # "" /\ password # ""
    /\ Len(password) >= MinPasswordLength
    /\ FindByEmail(users, email) = {}

\* register that issues tokens to every user it creates
RegisterResponse_tokensAlways(email, password, t) ==
    IF email = "" \/ password = ""
    THEN ReplyError("register", 400,
                    "Email, password, firstName, and lastName are required")
    ELSE IF Len(password) < MinPasswordLength
    THEN ReplyError("register", 400, "Password must be at least 6 characters")
    ELSE IF FindByEmail(users, email) # {}
    THEN ReplyError("register", 409, "User with this email already exists")
    ELSE ReplyTokens("register", 201, generateTokens(NextId(users), email, t))

\* register(req, res): the response
RegisterResponse(email, password, t) ==
    IF email = "" \/ password = ""
    THEN ReplyError("register", 400,
                    "Email, password, firstName, and lastName are required")
    ELSE IF Len(password) < MinPasswordLength
    THEN ReplyError("register", 400, "Password must be at least 6 characters")
    ELSE IF FindByEmail(users, email) # {}
    THEN ReplyError("register", 409, "User with this email already exists")
    ELSE IF ~ isBetaApproved(betaAccessList, email)
    THEN [Reply("register", 201) EXCEPT !.waitingList = TRUE]
    ELSE ReplyTokens("register", 201, generateTokens(NextId(users), email, t))

\* register(req, res): the users table after it
RegisterStore(email, password, salt) ==
    IF RegisterAccepts(email, password)
    THEN CreateUser(users, email, hashPassword(password, salt), FALSE,
                    isBetaApproved(betaAccessList, email),
                    IF isBetaApproved(betaAccessList, email)
                    THEN "approved" ELSE "pending")
    ELSE users

\* createAdmin: the checks of the body, of the secret and the lookup pass
CreateAdminAccepts(email, password, adminSecret) ==
    /\ email # "" /\ password # ""
    /\ Len(password) >= MinPasswordLength
    /\ ~ (env.ADMIN_SECRET_KEY # "" /\ adminSecret # env.ADMIN_SECRET_KEY)
    /\ FindByEmail(users, email) = {}

\* createAdmin(req, res): the response
CreateAdminResponse(email, password, adminSecret, t) ==
    IF email = "" \/ password = ""
    THEN ReplyError("createAdmin", 400,
                    "Email, password, firstName, and lastName are required")
    ELSE IF Len(password) < MinPasswordLength
    THEN ReplyError("createAdmin", 400, "Password must be at least 6 characters")
    ELSE IF env.ADMIN_SECRET_KEY # "" /\ adminSecret # env.ADMIN_SECRET_KEY
    THEN ReplyError("createAdmin", 403, "Invalid admin secret key")
    ELSE IF FindByEmail(users, email) # {}
    THEN ReplyError("createAdmin", 409, "User with this email already exists")
    ELSE ReplyTokens("createAdmin", 201,
                     generateTokens(NextId(users), email, t))

\* createAdmin(req, res): the users table after it
CreateAdminStore(email, password, adminSecret, salt) ==
    IF CreateAdminAccepts(email, password, adminSecret)
    THEN CreateUser(users, email, hashPassword(password, salt), TRUE, TRUE,
                    "approved")
    ELSE users

\* betaAccessList.create({ email, approved: true }); a row that exists stays
BetaCreate(list, email) ==
    IF email \in DOMAIN list THEN list ELSE list @@ (email :> TRUE)

\* adminLogin(req, res)
AdminLoginResponse(email, password, t) ==
    LET found == FindByEmail(users, email)
    IN  IF email = "" \/ password = ""
        THEN ReplyError("adminLogin", 400, "Email and password are required")
        ELSE IF found = {}
        THEN ReplyError("adminLogin", 401, "Invalid credentials")
        ELSE LET user == users[CHOOSE i \in found : TRUE]
             IN  IF ~ user.isAdmin
                 THEN ReplyError("adminLogin", 403,
                                 "Access denied. Admin privileges required.")
                 ELSE IF ~ comparePassword(password, user.password)
                 THEN ReplyError("adminLogin", 401, "Invalid credentials")
                 ELSE ReplyTokens("adminLogin", 200,
                                  generateTokens(user.id, user.email, t))

\* the verify callback of the Google strategy: the users table after it
GoogleStore(email) ==
    IF FindByEmail(users, email) # {} THEN users
    ELSE CreateUser(users, email, NoHash, FALSE, FALSE, "pending")

\* googleCallbackHandler(req, res): user is req.user, a row id or Null
GoogleCallbackResponse(store, user, t) ==
    IF user = Null
    THEN ReplyError("google", 302, "OAuthFailed")
    ELSE LET tokens == generateTokens(store[user].id, store[user].email, t)
         IN  [SetRefreshCookie(Reply("google", 302), tokens.refreshToken)
                 EXCEPT !.urlToken = tokens.accessToken]

\* approveUser(req, res): the user row after it
ApproveRow(u) == [u EXCEPT !.betaMember = TRUE, !.status = "approved"]

\* approveUser that leaves the beta access list alone
ApproveBeta_userOnly(list, email) == list

\* approveUser(req, res): the beta access list after it
ApproveBeta(list, email) ==
    IF email \in DOMAIN list THEN [list EXCEPT ![email] = TRUE]
    ELSE list @@ (email :> TRUE)

\* rejectUser that writes the status alone
RejectRow_statusOnly(u) == [u EXCEPT !.status = "rejected"]

\* rejectUser(req, res): the user row after it
RejectRow(u) == [u EXCEPT !.betaMember = FALSE, !.status = "rejected"]

RegisterEmails   == {"a@x.com", "b@x.com"}
RegisterPasswords == {"abcde", "secret1"}
AdminEmails      == {"admin@x.com"}
AdminSecrets     == {"", "admin-key"}
GoogleEmails     == {"b@x.com", "g@x.com"}
UnknownEmail     == "nobody@x.com"
AccessLoginEmails == RegisterEmails \cup AdminEmails \cup {UnknownEmail}
UserIds          == 1 .. 3

InitAccess ==
    /\ env \in Envs
    /\ tz = "UTC"
    /\ now = 0
    /\ ticks = 0
    /\ probe = NoProbe
    /\ users = << >>
    /\ forgots = << >>
    /\ resets = << >>
    /\ nextToken = 1
    /\ issued = << >>
    /\ consumed = {}
    /\ cleared = {}
    /\ okCount = << >>
    /\ cookie = NoToken
    /\ mintedAccess = {}
    /\ mintedRefresh = {}
    /\ resp = Reply("none", 0)
    /\ presented = NoToken
    /\ loggedOut = FALSE
    /\ superseded = {}
    /\ ops = 0
    /\ betaAccessList = ("a@x.com" :> TRUE)
    /\ creds = NoCreds
    /\ IdleSide

Register(email, password) ==
    /\ Answer(RegisterResponse(email, password, now), NoToken,
              [email |-> email, password |-> password])
    /\ users' = RegisterStore(email, password, CallSalt)
    /\ UNCHANGED << betaAccessList, loggedOut, superseded >>
    /\ AuthFrame

CreateAdmin(email, password, adminSecret) ==
    /\ Answer(CreateAdminResponse(email, password, adminSecret, now), NoToken,
              [email |-> email, password |-> password])
    /\ users' = CreateAdminStore(email, password, adminSecret, CallSalt)
    /\ betaAccessList' = IF CreateAdminAccepts(email, password, adminSecret)
                         THEN BetaCreate(betaAccessList, email)
                         ELSE betaAccessList
    /\ UNCHANGED << loggedOut, superseded >>
    /\ AuthFrame

AdminLogin(email, password) ==
    /\ Answer(AdminLoginResponse(email, password, now), NoToken,
              [email |-> email, password |-> password])
    /\ UNCHANGED << users, betaAccessList, loggedOut, superseded >>
    /\ AuthFrame

\* GET /auth/google/callback for a Google profile with this email: the
\* strategy finds or creates the user, the handler issues the tokens
GoogleCallback(email) ==
    /\ users' = GoogleStore(email)
    /\ Answer(GoogleCallbackResponse(users', CHOOSE i \in FindByEmail(users', email) : TRUE, now),
              NoToken, [email |-> email, password |-> ""])
    /\ UNCHANGED << betaAccessList, loggedOut, superseded >>
    /\ AuthFrame

\* requireAdmin(req, res, next): reqUser is the req.user authenticateToken set
RequireAdminResponse(reqUser) ==
    IF reqUser = NoToken
    THEN ReplyError("requireAdmin", 401, "Authentication required")
    ELSE IF reqUser.userId \notin DOMAIN users
    THEN ReplyError("requireAdmin", 403, "Admin access required")
    ELSE IF ~ users[reqUser.userId].isAdmin
    THEN ReplyError("requireAdmin", 403, "Admin access required")
    ELSE [Reply("requireAdmin", 200) EXCEPT !.next = TRUE, !.reqUser = reqUser]

\* a gate that lets every authenticated user through
AdminGate_authenticatedOnly(h, t) == AuthenticateResponse(h, t)

\* router.use(authenticateToken, requireAdmin): h is the token of the
\* Authorization header; next = TRUE when the route handler runs
AdminGate(h, t) ==
    IF AuthenticateResponse(h, t).next
    THEN RequireAdminResponse(AuthenticateResponse(h, t).reqUser)
    ELSE AuthenticateResponse(h, t)

\* the response of an admin route: that of the gate when it refuses, else
\* that of the handler
AdminReply(op, h, t, r) ==
    IF AdminGate(h, t).next THEN r ELSE [AdminGate(h, t) EXCEPT !.op = op]

\* approveUser: "User is already approved"
AlreadyApproved(u) == u.betaMember /\ u.status = "approved"

\* addBetaEmail / addMultipleBetaEmails: the row of the email is updated to
\* approved, or created approved
BetaUpsert(list, email) ==
    IF email \in DOMAIN list THEN [list EXCEPT ![email] = TRUE]
    ELSE list @@ (email :> TRUE)

\* "If user exists and is pending, auto-approve them"
AutoApprove(store, emails) ==
    [i \in DOMAIN store |->
        IF store[i].email \in emails /\ store[i].status = "pending"
        THEN ApproveRow(store[i]) ELSE store[i]]

\* addBetaEmail(req, res): the users table after it; a request for an email
\* that has a row in the list returns after updating that row
AddBetaEmailStore(store, list, email) ==
    IF email = "" \/ email \in DOMAIN list THEN store
    ELSE AutoApprove(store, {email})

\* addBetaEmail(req, res): the status of the response
AddBetaEmailStatus(list, email) ==
    IF email = "" THEN 400
    ELSE IF email \in DOMAIN list THEN 200
    ELSE 201

\* addMultipleBetaEmails(req, res): the beta access list after the loop
RECURSIVE BetaUpsertAll(_, _)
BetaUpsertAll(list, emails) ==
    IF emails = {} THEN list
    ELSE LET e == CHOOSE x \in emails : TRUE
         IN  BetaUpsertAll(BetaUpsert(list, e), emails \ {e})

\* removeBetaEmail(req, res): prisma.betaAccessList.delete
BetaDelete(list, email) == [e \in DOMAIN list \ {email} |-> list[e]]

\* getWaitlist / getBetaAccessList / getUserAccessList: the emails of the
\* rows the response carries
AdminReadData(route) ==
    IF route = "getWaitlist"
    THEN {users[i].email : i \in {j \in DOMAIN users :
              users[j].status = "pending" /\ ~ users[j].betaMember}}
    ELSE IF route = "getBetaAccessList" THEN DOMAIN betaAccessList
    ELSE {users[i].email : i \in DOMAIN users}

AdminReadRoutes == {"getWaitlist", "getBetaAccessList", "getUserAccessList"}
AdminRoutes == AdminReadRoutes \cup
    {"addBetaEmail", "addMultipleBetaEmails", "approveUser", "rejectUser",
     "removeBetaEmail"}

\* the emails an admin passes to the beta-list routes
BetaEmails == {"b@x.com", "g@x.com"}

\* the Authorization headers the admin routes are called with
AdminTokens == {NoToken} \cup mintedAccess \cup ForgedTokens

\* POST /admin/beta/approve/:userId
ApproveUser(h, u) ==
    /\ Answer(AdminReply("approveUser", h, now,
                 [Reply("approveUser", IF u \in DOMAIN users THEN 200 ELSE 404)
                     EXCEPT !.param = u]),
              h, NoCreds)
    /\ IF AdminGate(h, now).next /\ u \in DOMAIN users
       THEN IF AlreadyApproved(users[u])
            THEN UNCHANGED << users, betaAccessList >>
            ELSE /\ users' = [users EXCEPT ![u] = ApproveRow(@)]
                 /\ betaAccessList' = ApproveBeta(betaAccessList, users[u].email)
       ELSE UNCHANGED << users, betaAccessList >>
    /\ UNCHANGED << loggedOut, superseded >>
    /\ AuthFrame

\* POST /admin/beta/reject/:userId
RejectUser(h, u) ==
    /\ Answer(AdminReply("rejectUser", h, now,
                 [Reply("rejectUser", IF u \in DOMAIN users THEN 200 ELSE 404)
                     EXCEPT !.param = u]),
              h, NoCreds)
    /\ users' = IF AdminGate(h, now).next /\ u \in DOMAIN users
                THEN [users EXCEPT ![u] = RejectRow(@)] ELSE users
    /\ UNCHANGED << betaAccessList, loggedOut, superseded >>
    /\ AuthFrame

\* POST /admin/beta/add
AddBetaEmail(h, email) ==
    /\ Answer(AdminReply("addBetaEmail", h, now,
                 Reply("addBetaEmail", AddBetaEmailStatus(betaAccessList, email))),
              h, [email |-> email, password |-> ""])
    /\ IF AdminGate(h, now).next /\ email # ""
       THEN /\ betaAccessList' = BetaUpsert(betaAccessList, email)
            /\ users' = AddBetaEmailStore(users, betaAccessList, email)
       ELSE UNCHANGED << users, betaAccessList >>
    /\ UNCHANGED << loggedOut, superseded >>
    /\ AuthFrame

\* POST /admin/beta/add-multiple
AddMultipleBetaEmails(h, emails) ==
    /\ Answer(AdminReply("addMultipleBetaEmails", h, now,
                 [Reply("addMultipleBetaEmails", IF emails = {} THEN 400 ELSE 201)
                     EXCEPT !.data = emails]),
              h, NoCreds)
    /\ IF AdminGate(h, now).next
       THEN /\ betaAccessList' = BetaUpsertAll(betaAccessList, emails)
            /\ users' = AutoApprove(users, emails)
       ELSE UNCHANGED << users, betaAccessList >>
    /\ UNCHANGED << loggedOut, superseded >>
    /\ AuthFrame

\* DELETE /admin/beta/remove/:email
RemoveBetaEmail(h, email) ==
    /\ Answer(AdminReply("removeBetaEmail", h, now,
                 Reply("removeBetaEmail",
                       IF email \in DOMAIN betaAccessList THEN 200 ELSE 404)),
              h, [email |-> email, password |-> ""])
    /\ betaAccessList' = IF AdminGate(h, now).next
                         THEN BetaDelete(betaAccessList, email)
                         ELSE betaAccessList
    /\ UNCHANGED << users, loggedOut, superseded >>
    /\ AuthFrame

\* GET /admin/beta/waitlist, /admin/beta/list, /admin/user/list
AdminRead(h, route) ==
    /\ Answer(AdminReply(route, h, now,
                 [Reply(route, 200) EXCEPT !.data = AdminReadData(route)]),
              h, NoCreds)
    /\ UNCHANGED << users, betaAccessList, loggedOut, superseded >>
    /\ AuthFrame

NextAccess ==
    \/ \E e \in RegisterEmails, p \in RegisterPasswords : Register(e, p)
    \/ \E e \in AdminEmails, p \in RegisterPasswords, k \in AdminSecrets :
          CreateAdmin(e, p, k)
    \/ \E e \in AccessLoginEmails, p \in LoginPasswords : Login(e, p)
    \/ \E e \in AccessLoginEmails, p \in LoginPasswords : AdminLogin(e, p)
    \/ \E e \in GoogleEmails : GoogleCallback(e)
    \/ \E c \in {cookie} \ {NoToken} : Refresh(c)
    \/ \E h \in AdminTokens, u \in UserIds : ApproveUser(h, u)
    \/ \E h \in AdminTokens, u \in UserIds : RejectUser(h, u)
    \/ \E h \in AdminTokens, e \in BetaEmails : AddBetaEmail(h, e)
    \/ \E h \in AdminTokens, es \in SUBSET BetaEmails \ {{}} :
          AddMultipleBetaEmails(h, es)
    \/ \E h \in AdminTokens, e \in BetaEmails \cup {"a@x.com"} :
          RemoveBetaEmail(h, e)
    \/ \E h \in AdminTokens, route \in AdminReadRoutes : AdminRead(h, route)

SpecAccess == InitAccess /\ [][NextAccess]_vars

\* the responses that carry tokens
IssuesTokens(r) ==
    r.cookieOp = "set" \/ r.accessToken # NoToken \/ r.urlToken # NoToken

\* the rows register created: not an admin, and with a password hash
Registered(store) ==
    {i \in DOMAIN store : ~ store[i].isAdmin /\ store[i].password # NoHash}

\* C13: no response of register, login, refreshToken, googleCallbackHandler,
\* createAdmin or adminLogin carries a refresh token in its JSON body or in
\* its redirect URL; a refresh token leaves only as the refreshToken cookie,
\* which is httpOnly and sameSite strict.
C13_RefreshTokenOnlyInCookie ==
    /\ resp.accessToken \notin mintedRefresh
    /\ resp.urlToken \notin mintedRefresh
    /\ resp.cookieOp = "set" =>
          /\ resp.cookieToken \in mintedRefresh
          /\ resp.cookieOptions.httpOnly
          /\ resp.cookieOptions.sameSite = "strict"

C13_Witness ==
    /\ env.JWT_SECRET = env.JWT_REFRESH_SECRET
    /\ resp.op = "google"
    /\ resp.cookieOp = "set"
    /\ resp.urlToken \in mintedAccess

\* C15: every response that issues an access token carries it in its JSON
\* body, and none carries it in a URL.
C15_AccessTokenInBody ==
    IssuesTokens(resp) =>
        /\ resp.accessToken \in mintedAccess
        /\ resp.urlToken = NoToken

\* C16: login and adminLogin answer a registered email with a wrong password
\* exactly as they answer an email that is not registered, whatever the
\* state of the registered user.
C16_UnknownEmailIndistinguishable ==
    \A i \in DOMAIN users : \A p \in LoginPasswords :
        ~ comparePassword(p, users[i].password) =>
            /\ LoginResponse(users[i].email, p, now) =
                  LoginResponse(UnknownEmail, p, now)
            /\ AdminLoginResponse(users[i].email, p, now) =
                  AdminLoginResponse(UnknownEmail, p, now)

\* C17 (as stated): for a user register created, login with the registered
\* email and password is answered 200 with tokens, and login with another
\* password is answered 401.
C17_RegisterThenLogin ==
    resp.op = "login" =>
        \A i \in Registered(users) :
            users[i].email = creds.email =>
                IF comparePassword(creds.password, users[i].password)
                THEN /\ resp.status = 200
                     /\ resp.accessToken # NoToken
                     /\ resp.cookieOp = "set"
                ELSE resp.status = 401

\* C17 (as the source has it): for a user register created, login with
\* another password is answered 401; login with the registered password is
\* answered 200 with tokens when the user is approved (the email was on the
\* beta access list at registration, or an admin approved the user since),
\* and 403 without tokens while the user is pending or rejected.
C17_RegisterThenLoginByStatus ==
    resp.op = "login" =>
        \A i \in Registered(users) :
            users[i].email = creds.email =>
                IF ~ comparePassword(creds.password, users[i].password)
                THEN resp.status = 401 /\ ~ IssuesTokens(resp)
                ELSE IF users[i].status = "approved"
                THEN /\ resp.status = 200
                     /\ resp.accessToken.userId = i
                     /\ resp.cookieOp = "set"
                ELSE resp.status = 403 /\ ~ IssuesTokens(resp)

C17_Witness ==
    /\ resp.op = "login"
    /\ resp.status = 200
    /\ \E i \in Registered(users) :
          /\ users[i].email = creds.email
          /\ comparePassword(creds.password, users[i].password)

\* C19: login issues no token to a user whose status is pending or
\* rejected: with the right password such a user is answered 403 with no
\* access token and no cookie, and a 200 goes to approved users only.
C19_LoginOnlyApproved ==
    resp.op = "login" =>
        \A i \in FindByEmail(users, creds.email) :
            /\ users[i].status \in {"pending", "rejected"} =>
                  /\ ~ IssuesTokens(resp)
                  /\ comparePassword(creds.password, users[i].password) =>
                        resp.status = 403
            /\ resp.status = 200 => users[i].status = "approved"

C19_Witness ==
    /\ resp.op = "login"
    /\ resp.status = 403
    /\ \E i \in FindByEmail(users, creds.email) :
          /\ users[i].status = "rejected"
          /\ comparePassword(creds.password, users[i].password)

\* C20: no response issues an access or refresh token for a user whose
\* status at that moment is pending or rejected.
C20_TokensOnlyToApproved ==
    \A tok \in {resp.accessToken, resp.urlToken, resp.cookieToken} \ {NoToken} :
        /\ tok.userId \in DOMAIN users
        /\ users[tok.userId].status = "approved"


\* C21: register branches on pre-approval.  When the beta access list holds
\* the email with approved = true the new user has betaMember = true and
\* status approved and the response carries an access token and sets the
\* refresh cookie; otherwise the new user has betaMember = false and status
\* pending, the response has waitingList = true and carries no token and no
\* cookie.
C21_RegisterBranches ==
    (resp.op = "register" /\ resp.status = 201) =>
        /\ FindByEmail(users, creds.email) # {}
        /\ \A i \in FindByEmail(users, creds.email) :
              IF creds.email \in DOMAIN betaAccessList /\ betaAccessList[creds.email]
              THEN /\ users[i].betaMember
                   /\ users[i].status = "approved"
                   /\ resp.accessToken \in mintedAccess
                   /\ resp.accessToken.userId = i
                   /\ resp.cookieOp = "set"
                   /\ resp.cookieToken.userId = i
                   /\ ~ resp.waitingList
              ELSE /\ ~ users[i].betaMember
                   /\ users[i].status = "pending"
                   /\ resp.waitingList
                   /\ ~ IssuesTokens(resp)

C21_Witness ==
    /\ resp.op = "register"
    /\ resp.status = 201
    /\ resp.waitingList
    /\ \E i \in DOMAIN users : users[i].status = "approved" /\ ~ users[i].isAdmin

\* C22: after a successful addBetaEmail(email), whether it created the row
\* of the list or updated it, the row has approved = true and no user with
\* that email is still pending: a user who was pending has betaMember = true
\* and status approved.  The same for every email of a successful
\* addMultipleBetaEmails.
C22_AddBetaEmailApprovesWaiting ==
    /\ (resp.op = "addBetaEmail" /\ resp.status \in {200, 201}) =>
          /\ creds.email \in DOMAIN betaAccessList
          /\ betaAccessList[creds.email]
          /\ \A i \in FindByEmail(users, creds.email) :
                users[i].status # "pending"
    /\ (resp.op = "addMultipleBetaEmails" /\ resp.status = 201) =>
          \A e \in resp.data :
              /\ e \in DOMAIN betaAccessList
              /\ betaAccessList[e]
              /\ \A i \in FindByEmail(users, e) : users[i].status # "pending"

C24_StatusWorkflow ==
    [][\A i \in DOMAIN users :
          (i \in DOMAIN users' /\ users'[i].status # users[i].status) =>
              /\ users[i].status = "pending"
              /\ users'[i].status \in {"approved", "rejected"}
      ]_vars

\* C25: a route mounted after router.use(authenticateToken, requireAdmin)
\* runs only for a request whose access token verifies and whose user row
\* has isAdmin = true; every other request is answered 401 or 403, changes
\* no user row and no beta-list row, and reads none out.
C25_AdminGate ==
    [][(ops' # ops /\ resp'.op \in AdminRoutes) =>
          \/ /\ presented' # NoToken
             /\ presented'.key = env.JWT_SECRET
             /\ (now \div MsPerSecond) < presented'.exp
             /\ presented'.userId \in DOMAIN users
             /\ users[presented'.userId].isAdmin
             /\ resp'.status \notin {401, 403}
          \/ /\ resp'.status \in {401, 403}
             /\ users' = users
             /\ betaAccessList' = betaAccessList
             /\ resp'.data = {}
      ]_vars

C25_Witness ==
    /\ resp.op = "rejectUser"
    /\ resp.status = 403
    /\ presented \in mintedAccess
    /\ verifyAccessToken(presented, now)
    /\ presented.userId \in DOMAIN users
    /\ ~ users[presented.userId].isAdmin
    /\ \E i \in DOMAIN users : users[i].isAdmin

\* C26: for every user, betaMember is true exactly when status is approved.
C26_BetaMemberIffApproved ==
    \A i \in DOMAIN users :
        users[i].betaMember <=> (users[i].status = "approved")

C26_Witness ==
    /\ resp.op = "rejectUser"
    /\ resp.status = 200
    /\ resp.param \in DOMAIN users
    /\ users[resp.param].email = "a@x.com"
    /\ users[resp.param].status = "rejected"
    /\ \E i \in DOMAIN users : users[i].status = "pending"

\* ====================================================== password policy
\* register, createAdmin and the password reset flow on one store: one
\* forgotPassword and one resetPassword request, whose steps interleave with
\* the other handlers.
PolicySlots == {1}

PolicySeedUsers ==
    (1 :> UserRow(1, "a@x.com", hashPassword("secret1", 0 - 1), FALSE, TRUE, "approved"))

InitPolicy ==
    /\ env \in Envs
    /\ tz = "UTC"
    /\ now = 0
    /\ ticks = 0
    /\ probe = NoProbe
    /\ users = PolicySeedUsers
    /\ forgots = [r \in PolicySlots |-> IdleForgot]
    /\ resets = [r \in PolicySlots |-> IdleReset]
    /\ nextToken = 1
    /\ issued = [i \in DOMAIN PolicySeedUsers |-> << >>]
    /\ consumed = {}
    /\ cleared = {}
    /\ okCount = [t \in PolicySlots |-> 0]
    /\ cookie = NoToken
    /\ mintedAccess = {}
    /\ mintedRefresh = {}
    /\ resp = Reply("none", 0)
    /\ presented = NoToken
    /\ loggedOut = FALSE
    /\ superseded = {}
    /\ ops = 0
    /\ betaAccessList = ("a@x.com" :> TRUE)
    /\ creds = NoCreds
    /\ IdleSide

NextPolicy ==
    \/ \E e \in RegisterEmails, p \in RegisterPasswords : Register(e, p)
    \/ \E e \in AdminEmails, p \in RegisterPasswords, k \in AdminSecrets :
          CreateAdmin(e, p, k)
    \/ \E r \in PolicySlots, t \in KnownTokens, p \in NewPasswords :
          ResetFind(r, t, p)
    \/ \E r \in PolicySlots : ResetClear(r)
    \/ \E r \in PolicySlots : ResetUpdate(r)
    \/ \E r \in PolicySlots, e \in ForgotEmails : ForgotFind(r, e)
    \/ \E r \in PolicySlots, sent \in BOOLEAN : ForgotStore(r, sent)
    \/ \E r \in PolicySlots : ForgotCleanup(r)
    \/ ResetTick

SpecPolicy == InitPolicy /\ [][NextPolicy]_vars

\* the plaintext is shorter than the minimum (and not missing)
TooShort(password) == Len(password) \in 1 .. (MinPasswordLength - 1)

\* C18: register, createAdmin and resetPassword answer a password shorter
\* than 6 characters with 400 before any lookup by token or store write: no
\* user row or beta-list row is created or changed, no token is issued, the
\* reset token is not consumed, and no stored password hash derives from a
\* plaintext shorter than 6 characters.
C18_MinimumLength ==
    /\ [](\A i \in DOMAIN users :
             users[i].password # NoHash =>
                 Len(users[i].password.plain) >= MinPasswordLength)
    /\ [][/\ (/\ ops' # ops
               /\ resp'.op \in {"register", "createAdmin"}
               /\ creds'.email # ""
               /\ TooShort(creds'.password)) =>
                 /\ resp'.status = 400
                 /\ ~ IssuesTokens(resp')
                 /\ users' = users
                 /\ betaAccessList' = betaAccessList
           /\ \A r \in DOMAIN resets :
                 (resets[r].pc = "idle" /\ resets'[r].weak) =>
                     /\ resets'[r].pc = "done"
                     /\ resets'[r].status = 400
                     /\ resets'[r].userId = 0
                     /\ users' = users
                     /\ consumed' = consumed
                     /\ cleared' = cleared
          ]_vars

C18_Witness ==
    /\ \E r \in DOMAIN resets :
          /\ resets[r].weak
          /\ resets[r].status = 400
          /\ \E i \in DOMAIN users : users[i].resetToken = resets[r].token
    /\ resp.op = "register"
    /\ resp.status = 400
    /\ TooShort(creds.password)

\* ============================================ register and addBetaEmail
\* The handlers of POST /auth/register and POST /admin/beta/add as the
\* event loop runs them: each await is a point where a step of another
\* request may run.  A slot of regs or adds is one request: its position in
\* the handler and its locals.  The add requests are those of an admin that
\* the gate of the admin routes has let through.
RegSlots == {1, 2}
AddSlots == {1, 2}
RaceEmails    == {"a@x.com", "b@x.com"}
RacePasswords == {"secret1"}

IdleReg == [pc |-> "idle", email |-> "", password |-> "",
            isBetaApproved |-> FALSE, status |-> 0, waitingList |-> FALSE]

IdleAdd == [pc |-> "idle", email |-> "", userId |-> 0, status |-> 0]

RaceSeedUsers ==
    1 :> UserRow(1, "admin@x.com", hashPassword("secret1", 0), TRUE, TRUE, "approved")

InitRace ==
    /\ env = Null
    /\ tz = "UTC"
    /\ now = 0
    /\ ticks = 0
    /\ probe = NoProbe
    /\ users = RaceSeedUsers
    /\ forgots = << >>
    /\ resets = << >>
    /\ nextToken = 1
    /\ issued = << >>
    /\ consumed = {}
    /\ cleared = {}
    /\ okCount = << >>
    /\ cookie = Null
    /\ mintedAccess = {}
    /\ mintedRefresh = {}
    /\ resp = Null
    /\ presented = Null
    /\ loggedOut = FALSE
    /\ superseded = {}
    /\ ops = 0
    /\ betaAccessList = BetaCreate(<< >>, "admin@x.com")
    /\ creds = Null
    /\ regs = [r \in RegSlots |-> IdleReg]
    /\ adds = [a \in AddSlots |-> IdleAdd]
    /\ documents = << >>
    /\ chats = << >>
    /\ docResp = Null

RaceFrame ==
    UNCHANGED << env, tz, now, ticks, probe, forgots, resets, nextToken, issued,
                 consumed, cleared, okCount, cookie, mintedAccess, mintedRefresh,
                 resp, presented, loggedOut, superseded, ops, creds,
                 documents, chats, docResp >>

\* register up to the resolution of user.findUnique: the checks of the body
\* and the lookup by email
RegFind(r, email, password) ==
    /\ FreeSlot(regs, r)
    /\ regs' = [regs EXCEPT ![r] =
                  [IdleReg EXCEPT
                     !.email = email,
                     !.password = password,
                     !.pc = IF RegisterAccepts(email, password)
                            THEN "beta" ELSE "done",
                     !.status = IF RegisterAccepts(email, password) THEN 0
                                ELSE RegisterResponse(email, password, now).status]]
    /\ UNCHANGED << users, betaAccessList, adds >>
    /\ RaceFrame

\* register: betaAccessList.findUnique resolves; isBetaApproved is a local
RegBeta(r) ==
    /\ regs[r].pc = "beta"
    /\ regs' = [regs EXCEPT ![r] =
                  [@ EXCEPT !.pc = "create",
                            !.isBetaApproved =
                                isBetaApproved(betaAccessList, regs[r].email)]]
    /\ UNCHANGED << users, betaAccessList, adds >>
    /\ RaceFrame

\* register: user.create with the local isBetaApproved; the unique index on
\* email makes it throw when the email was created meanwhile (catch: 500)
RegCreate(r) ==
    /\ regs[r].pc = "create"
    /\ IF FindByEmail(users, regs[r].email) # {}
       THEN /\ regs' = [regs EXCEPT ![r] = [@ EXCEPT !.pc = "done", !.status = 500]]
            /\ UNCHANGED users
       ELSE /\ users' = CreateUser(users, regs[r].email,
                                   hashPassword(regs[r].password, r), FALSE,
                                   regs[r].isBetaApproved,
                                   IF regs[r].isBetaApproved
                                   THEN "approved" ELSE "pending")
            /\ regs' = [regs EXCEPT ![r] =
                          [@ EXCEPT !.pc = "done", !.status = 201,
                                    !.waitingList = ~ regs[r].isBetaApproved]]
    /\ UNCHANGED << betaAccessList, adds >>
    /\ RaceFrame

\* addBetaEmail up to the resolution of betaAccessList.findUnique
AddFind(a, email) ==
    /\ FreeSlot(adds, a)
    /\ adds' = [adds EXCEPT ![a] =
                  [IdleAdd EXCEPT
                     !.email = email,
                     !.pc = IF email \in DOMAIN betaAccessList
                            THEN "update" ELSE "create"]]
    /\ UNCHANGED << users, betaAccessList, regs >>
    /\ RaceFrame

\* addBetaEmail: the row exists; betaAccessList.update, 200
AddUpdate(a) ==
    /\ adds[a].pc = "update"
    /\ betaAccessList' = [betaAccessList EXCEPT ![adds[a].email] = TRUE]
    /\ adds' = [adds EXCEPT ![a] = [@ EXCEPT !.pc = "done", !.status = 200]]
    /\ UNCHANGED << users, regs >>
    /\ RaceFrame

\* addBetaEmail: betaAccessList.create; the unique index on email makes it
\* throw when the row was created meanwhile (catch: 500)
AddCreate(a) ==
    /\ adds[a].pc = "create"
    /\ IF adds[a].email \in DOMAIN betaAccessList
       THEN /\ adds' = [adds EXCEPT ![a] = [@ EXCEPT !.pc = "done", !.status = 500]]
            /\ UNCHANGED betaAccessList
       ELSE /\ betaAccessList' = BetaCreate(betaAccessList, adds[a].email)
            /\ adds' = [adds EXCEPT ![a] = [@ EXCEPT !.pc = "user"]]
    /\ UNCHANGED << users, regs >>
    /\ RaceFrame

\* addBetaEmail: user.findUnique resolves; 201 unless the user read is
\* pending
AddUser(a) ==
    /\ adds[a].pc = "user"
    /\ LET found == {i \in FindByEmail(users, adds[a].email) :
                        users[i].status = "pending"}
       IN  IF found = {}
           THEN adds' = [adds EXCEPT ![a] = [@ EXCEPT !.pc = "done", !.status = 201]]
           ELSE \E i \in found :
                   adds' = [adds EXCEPT ![a] = [@ EXCEPT !.pc = "approve", !.userId = i]]
    /\ UNCHANGED << users, betaAccessList, regs >>
    /\ RaceFrame

\* addBetaEmail: user.update of the pending user, 201
AddApprove(a) ==
    /\ adds[a].pc = "approve"
    /\ users' = [users EXCEPT ![adds[a].userId] = ApproveRow(@)]
    /\ adds' = [adds EXCEPT ![a] = [@ EXCEPT !.pc = "done", !.status = 201]]
    /\ UNCHANGED << betaAccessList, regs >>
    /\ RaceFrame

NextRace ==
    \/ \E r \in RegSlots, e \in RaceEmails, p \in RacePasswords : RegFind(r, e, p)
    \/ \E r \in RegSlots : RegBeta(r)
    \/ \E r \in RegSlots : RegCreate(r)
    \/ \E a \in AddSlots, e \in RaceEmails : AddFind(a, e)
    \/ \E a \in AddSlots : AddUpdate(a)
    \/ \E a \in AddSlots : AddCreate(a)
    \/ \E a \in AddSlots : AddUser(a)
    \/ \E a \in AddSlots : AddApprove(a)

SpecRace == InitRace /\ [][NextRace]_vars

\* no request is between two of its awaits
RaceQuiet ==
    /\ \A r \in RegSlots : regs[r].pc \in {"idle", "done"}
    /\ \A a \in AddSlots : adds[a].pc \in {"idle", "done"}

\* C27: register and addBetaEmail are race-free: whatever the interleaving
\* of their steps, once the requests are answered no email has approved =
\* true in the beta access list while the user of that email is pending.
C27_RegisterAddRaceFree ==
    RaceQuiet =>
        \A i \in DOMAIN users :
            isBetaApproved(betaAccessList, users[i].email) =>
                users[i].status # "pending"

\* ============================================================ documents
\* The documents table and the handlers that read and write it.  Every
\* route is mounted behind authenticateToken: u is req.user.userId of a
\* request the middleware let through.  A deleted row stays in the model as
\* a row with deleted = TRUE, so that the autoincrement id is never reused.
DocUsers  == {1, 2}
DocIds    == {1}
DocTitles == {"", "notes"}
Prompts   == {"hello", "more"}
AiTexts   == {"answer"}
ChatSlots == {1, 2}
ChatRoutes == {"generateText", "chatWithDocument"}

\* `User: ${userMessage}`, `AI: ${aiResponse}`
UserEntry(prompt) == << "User", prompt >>
AiEntry(text)     == << "AI", text >>

Histories == {<< >>, << UserEntry("old"), AiEntry("old") >>}

DocRow(id, title, content, chatHistory, createdBy) ==
    [id |-> id, title |-> title, content |-> content,
     chatHistory |-> chatHistory, createdBy |-> createdBy, deleted |-> FALSE]

\* prisma.documents.findUnique({ where: { id } })
FindDoc(store, id) == {i \in DOMAIN store : i = id /\ ~ store[i].deleted}

\* prisma.documents.findUnique({ where: { id, createdBy: userId } })
FindOwnDoc(store, id, u) == {i \in FindDoc(store, id) : store[i].createdBy = u}

\* the body of PUT /documents/:id
UpdateBodies ==
    [content : {"draft"}, hasHistory : BOOLEAN, chatHistory : {<< >>}]

DocReply(op, status, u, id, owner, data) ==
    [op |-> op, status |-> status, userId |-> u, id |-> id,
     owner |-> owner, data |-> data]

IdleChat == [pc |-> "idle", route |-> "", userId |-> 0, docId |-> 0,
             prompt |-> "", snapshot |-> << >>, status |-> 0,
             rewritten |-> FALSE]

InitDocs ==
    /\ env = Null
    /\ tz = "UTC"
    /\ now = 0
    /\ ticks = 0
    /\ probe = NoProbe
    /\ users = << >>
    /\ forgots = << >>
    /\ resets = << >>
    /\ nextToken = 1
    /\ issued = << >>
    /\ consumed = {}
    /\ cleared = {}
    /\ okCount = << >>
    /\ cookie = Null
    /\ mintedAccess = {}
    /\ mintedRefresh = {}
    /\ resp = Null
    /\ presented = Null
    /\ loggedOut = FALSE
    /\ superseded = {}
    /\ ops = 0
    /\ betaAccessList = << >>
    /\ creds = Null
    /\ regs = << >>
    /\ adds = << >>
    /\ documents = << >>
    /\ chats = [c \in ChatSlots |-> IdleChat]
    /\ docResp = DocReply("none", 0, 0, 0, 0, {})

DocFrame ==
    UNCHANGED << env, tz, now, ticks, probe, resetVars, authVars, regs, adds >>

\* a write of chatHistory by another handler: the requests that hold a
\* snapshot of the document's history read before it
MarkRewritten(slots, id) ==
    [c \in DOMAIN slots |->
        IF slots[c].pc = "model" /\ slots[c].docId = id
        THEN [slots[c] EXCEPT !.rewritten = TRUE] ELSE slots[c]]

\* POST /documents
createDocument(u, title, chatHistory) ==
    /\ Len(documents) + 1 \in DocIds
    /\ IF title = ""
       THEN /\ docResp' = DocReply("createDocument", 400, u, 0, 0, {})
            /\ UNCHANGED documents
       ELSE /\ documents' = Append(documents,
                               DocRow(Len(documents) + 1, title, "", chatHistory, u))
            /\ docResp' = DocReply("createDocument", 200, u,
                                   Len(documents) + 1, u, {Len(documents) + 1})
    /\ UNCHANGED chats
    /\ DocFrame

\* GET /documents
getAllDocuments(u) ==
    /\ docResp' = DocReply("getAllDocuments", 200, u, 0, u,
                           {i \in DOMAIN documents :
                               ~ documents[i].deleted /\ documents[i].createdBy = u})
    /\ UNCHANGED << documents, chats >>
    /\ DocFrame

\* GET /documents/:id
getDocumentById(u, id) ==
    /\ docResp' = IF FindDoc(documents, id) = {}
                  THEN DocReply("getDocumentById", 404, u, id, 0, {})
                  ELSE DocReply("getDocumentById", 200, u, id,
                                documents[id].createdBy, {id})
    /\ UNCHANGED << documents, chats >>
    /\ DocFrame

\* PUT /documents/:id
updateDocument(u, id, body) ==
    /\ IF FindDoc(documents, id) = {}
       THEN /\ docResp' = DocReply("updateDocument", 404, u, id, 0, {})
            /\ UNCHANGED << documents, chats >>
       ELSE /\ documents' = [documents EXCEPT ![id] =
                               [@ EXCEPT !.content = body.content,
                                         !.chatHistory =
                                             IF body.hasHistory
                                             THEN body.chatHistory ELSE @]]
            /\ chats' = IF body.hasHistory THEN MarkRewritten(chats, id) ELSE chats
            /\ docResp' = DocReply("updateDocument", 200, u, id,
                                   documents[id].createdBy, {id})
    /\ DocFrame

\* DELETE /documents/:id
deleteDocument(u, id) ==
    /\ IF FindDoc(documents, id) = {}
       THEN /\ docResp' = DocReply("deleteDocument", 404, u, id, 0, {})
            /\ UNCHANGED documents
       ELSE /\ documents' = [documents EXCEPT ![id] = [@ EXCEPT !.deleted = TRUE]]
            /\ docResp' = DocReply("deleteDocument", 200, u, id,
                                   documents[id].createdBy, {})
    /\ UNCHANGED chats
    /\ DocFrame

\* DELETE /ai/document-chat-history/:documentId
clearDocumentChatHistory(u, id) ==
    /\ IF FindOwnDoc(documents, id, u) = {}
       THEN /\ docResp' = DocReply("clearDocumentChatHistory", 404, u, id, 0, {})
            /\ UNCHANGED << documents, chats >>
       ELSE /\ documents' = [documents EXCEPT ![id] = [@ EXCEPT !.chatHistory = << >>]]
            /\ chats' = MarkRewritten(chats, id)
            /\ docResp' = DocReply("clearDocumentChatHistory", 200, u, id,
                                   documents[id].createdBy, {})
    /\ DocFrame

\* generateText / chatWithDocument up to the resolution of
\* verifyDocumentOwnership: the document read is a local of the request
ChatRead(c, route, u, id, prompt) ==
    /\ FreeSlot(chats, c)
    /\ chats' = [chats EXCEPT ![c] =
                   IF FindOwnDoc(documents, id, u) = {}
                   THEN [IdleChat EXCEPT !.route = route, !.userId = u,
                                         !.docId = id, !.prompt = prompt,
                                         !.pc = "done", !.status = 404]
                   ELSE [IdleChat EXCEPT !.route = route, !.userId = u,
                                         !.docId = id, !.prompt = prompt,
                                         !.snapshot = documents[id].chatHistory,
                                         !.pc = "model"]]
    /\ UNCHANGED << documents, docResp >>
    /\ DocFrame

\* updateDocumentChatHistory(documentId, userMessage, aiResponse, currentHistory)
updateDocumentChatHistory(currentHistory, userMessage, aiResponse) ==
    currentHistory \o << UserEntry(userMessage), AiEntry(aiResponse) >>

\* the model has answered: the history is written from the document read
\* at the start of the request, 200; documents.update throws when the row
\* is gone (500)
ChatWrite(c, text) ==
    /\ chats[c].pc = "model"
    /\ IF FindDoc(documents, chats[c].docId) = {}
       THEN /\ chats' = [chats EXCEPT ![c] = [@ EXCEPT !.pc = "done", !.status = 500]]
            /\ UNCHANGED documents
       ELSE /\ documents' = [documents EXCEPT ![chats[c].docId] =
                               [@ EXCEPT !.chatHistory =
                                   updateDocumentChatHistory(chats[c].snapshot,
                                                             chats[c].prompt, text)]]
            /\ chats' = [chats EXCEPT ![c] = [@ EXCEPT !.pc = "done", !.status = 200]]
    /\ UNCHANGED docResp
    /\ DocFrame

\* the call of the model is rejected: 500, nothing is written
ChatFail(c) ==
    /\ chats[c].pc = "model"
    /\ chats' = [chats EXCEPT ![c] = [@ EXCEPT !.pc = "done", !.status = 500]]
    /\ UNCHANGED << documents, docResp >>
    /\ DocFrame

NextDocs ==
    \/ \E u \in DocUsers, t \in DocTitles, h \in Histories : createDocument(u, t, h)
    \/ \E u \in DocUsers : getAllDocuments(u)
    \/ \E u \in DocUsers, id \in DocIds : getDocumentById(u, id)
    \/ \E u \in DocUsers, id \in DocIds, b \in UpdateBodies :
          updateDocument(u, id, b)
    \/ \E u \in DocUsers, id \in DocIds : deleteDocument(u, id)
    \/ \E u \in DocUsers, id \in DocIds :
          clearDocumentChatHistory(u, id)
    \/ \E c \in ChatSlots, r \in ChatRoutes, u \in DocUsers, id \in DocIds,
          p \in Prompts : ChatRead(c, r, u, id, p)
    \/ \E c \in ChatSlots, t \in AiTexts : ChatWrite(c, t)
    \/ \E c \in ChatSlots : ChatFail(c)

SpecDocs == InitDocs /\ [][NextDocs]_vars

\* C29: getDocumentById, updateDocument and deleteDocument return, change
\* or delete a document only when its createdBy is the id of the
\* authenticated user: a request of another user is not answered 200.
C29_DocumentsPrivate ==
    (/\ docResp.op \in {"getDocumentById", "updateDocument", "deleteDocument"}
     /\ docResp.status = 200) =>
        docResp.owner = docResp.userId

\* C30: every successful generateText or chatWithDocument call on a
\* document appends exactly 'User: <prompt>' and 'AI: <response>' to the
\* chatHistory stored at that moment, whatever other chat calls ran since
\* it read the document (no clear and no update of the history in between):
\* no exchange stored by another call is lost.
C30_HistoryGrowsByExchanges ==
    [][\A c \in ChatSlots :
          (/\ chats[c].pc = "model"
           /\ chats'[c].pc = "done"
           /\ chats'[c].status = 200
           /\ \A q \in ChatSlots : ~ chats[q].rewritten) =>
              /\ Len(documents'[chats[c].docId].chatHistory) =
                    Len(documents[chats[c].docId].chatHistory) + 2
              /\ SubSeq(documents'[chats[c].docId].chatHistory, 1,
                        Len(documents[chats[c].docId].chatHistory)) =
                    documents[chats[c].docId].chatHistory
      ]_vars

====
